---- MODULE Spec2Model ----
(***************************************************************************)
(* statsaggjs: aggregation of "key <delimiter> JSON object" lines.         *)
(*                                                                         *)
(* The module models src/statsaggjs.go: the Go values a decoded payload    *)
(* is made of, is_num_type, aggregate (the merge of one decoded record     *)
(* into the stored one), process_file (the line loop with the threshold    *)
(* flush), write_data and main.                                            *)
(*                                                                         *)
(* Two specifications:                                                     *)
(*   Spec     the program: main reads lines, process_file ingests them;    *)
(*   SpecAgg  one call of aggregate on two maps drawn from a bounded set   *)
(*            of Go values (every kind aggregate switches on).             *)
(***************************************************************************)
EXTENDS Integers, Sequences, FiniteSets, TLC

(***************************************************************************)
(* Bounds                                                                  *)
(***************************************************************************)
MaxLines == 3      \* lines scanned in one run, over all input files
MaxFiles == 1      \* input files named on the command line
MaxLimit == 2      \* largest value of -limit tried
MaxNest  == 2      \* nesting depth of the maps handed to aggregate (SpecAgg)
IntBits  == 6      \* width of int64/uint64, scaled down from 64

Keys   == {"foo", "bar", "baz"}
Fields == {"x", "y"}

(***************************************************************************)
(* Go values held in a map[string]interface{}.  kind is reflect.Kind of    *)
(* the value ("Invalid" is the nil interface, what JSON null decodes to);  *)
(* generic says whether a Map is a map[string]interface{} and a Slice a    *)
(* []interface{}, i.e. whether the type assertions of aggregate succeed.   *)
(* A float64 is modelled by the whole number it holds.                     *)
(***************************************************************************)
Val(kind, generic, b, n, s, o, a) ==
    [kind |-> kind, generic |-> generic, b |-> b, n |-> n, s |-> s, o |-> o, a |-> a]

Nil        == Val("Invalid", FALSE, FALSE, 0, "", <<>>, <<>>)
Bool(b)    == Val("Bool",    FALSE, b,     0, "", <<>>, <<>>)
String(s)  == Val("String",  FALSE, FALSE, 0, s,  <<>>, <<>>)
Float64(n) == Val("Float64", FALSE, FALSE, n, "", <<>>, <<>>)
Int64(n)   == Val("Int64",   FALSE, FALSE, n, "", <<>>, <<>>)
Uint64(n)  == Val("Uint64",  FALSE, FALSE, n, "", <<>>, <<>>)
Map(o)     == Val("Map",     TRUE,  FALSE, 0, "", o,    <<>>)
Slice(a)   == Val("Slice",   TRUE,  FALSE, 0, "", <<>>, a)
\* values of kind Map / Slice whose type is not the generic one
OtherMap   == Val("Map",     FALSE, FALSE, 0, "", <<>>, <<>>)
OtherSlice == Val("Slice",   FALSE, FALSE, 0, "", <<>>, <<>>)

\* a variable of type map[string]interface{}: nil, or a map with entries m
NilMap     == [isnil |-> TRUE,  m |-> <<>>]
GoMap(m)   == [isnil |-> FALSE, m |-> m]
EmptyMap   == GoMap(<<>>)

(***************************************************************************)
(* is_num_type: <<is_num, is_int, is_signed>>                              *)
(***************************************************************************)
\* is_num_type with the float cases (lines 342-345) left out
is_num_type_no_float(v) ==
    CASE v.kind = "Int64"   -> <<TRUE, TRUE, TRUE>>
      [] v.kind = "Uint64"  -> <<TRUE, TRUE, FALSE>>
      [] OTHER              -> <<FALSE, FALSE, FALSE>>

is_num_type(v) ==
    CASE v.kind = "Int64"   -> <<TRUE, TRUE, TRUE>>
      [] v.kind = "Uint64"  -> <<TRUE, TRUE, FALSE>>
      [] v.kind = "Float64" -> <<TRUE, FALSE, TRUE>>
      [] OTHER              -> <<FALSE, FALSE, FALSE>>

is_num(v) == is_num_type(v)[1]

(***************************************************************************)
(* Fixed-width integer arithmetic of Go (no overflow check).               *)
(***************************************************************************)
TwoTo(w)   == 2 ^ w
WrapU(n)   == n % TwoTo(IntBits)

\* signed arithmetic without wraparound
WrapS_unbounded(n) == n

WrapS(n)   == ((n + TwoTo(IntBits - 1)) % TwoTo(IntBits)) - TwoTo(IntBits - 1)

\* the limits of int64 and uint64 at the width of the model
MaxInt64  == TwoTo(IntBits - 1) - 1
MinInt64  == 0 - TwoTo(IntBits - 1)
MaxUint64 == TwoTo(IntBits) - 1

\* the new number stored instead of the sum
sum_last(ov, nv) == nv

\* lines 269-314: both values numeric
sum(ov, nv) ==
    LET o_t == is_num_type(ov)
        n_t == is_num_type(nv)
    IN  IF o_t[2] /\ n_t[2]
        THEN IF n_t[3] = o_t[3]
             THEN IF n_t[3] THEN Int64(WrapS(ov.n + nv.n))
                            ELSE Uint64(WrapU(ov.n + nv.n))
             ELSE IF n_t[3] THEN Int64(WrapS(WrapS(ov.n) + nv.n))
                            ELSE Int64(WrapS(ov.n + WrapS(nv.n)))
        ELSE Float64(ov.n + nv.n)

\* drop_new testing the new value only
drop_new_any_old(ov, nv) == ~is_num(nv)

\* line 218: the old value is numeric and the new one is not
drop_new(ov, nv) == is_num(ov) /\ ~is_num(nv)

\* append with its arguments swapped
append_swapped(ov_slice, nv_slice) == nv_slice \o ov_slice

\* line 261: append(ov_slice, nv_slice...)
append(ov_slice, nv_slice) == ov_slice \o nv_slice

\* the map branch never taken: equal kinds end in the replacement of line 265
is_map_never(nv_kind) == FALSE

\* line 234: nv_kind == reflect.Map
is_map(nv_kind) == nv_kind = "Map"

\* the assertion of nv (lines 239-242, 256-259) left out
asserted_ov_only(ov, nv) == ov.generic

\* lines 235-242 and 252-259: both type assertions succeed
asserted(ov, nv) == ov.generic /\ nv.generic

\* the new field not stored
store_new_skipped(stored_data, nk, nv) == stored_data

\* line 208: stored_data[nk] = nv for a field the stored map does not have
store_new(stored_data, nk, nv) == GoMap((nk :> nv) @@ stored_data.m)

(***************************************************************************)
(* aggregate(stored_data, this_data): the set of outcomes                  *)
(* [data, err] over the orders in which `range this_data` can visit the    *)
(* fields.  data is stored_data as the call leaves it (a Go map is         *)
(* mutated in place, so it holds the fields merged before an error);       *)
(* err is "nil", "error" (a failed type assertion) or "panic" (assignment  *)
(* to an entry of a nil map).                                              *)
(***************************************************************************)
RECURSIVE aggregate(_, _)
RECURSIVE range_loop(_, _, _)

\* Lines 206-314: the loop body for one field nk with value nv.
visit(stored_data, nk, nv) ==
    IF nk \notin DOMAIN stored_data.m
    THEN IF stored_data.isnil
         THEN {[data |-> stored_data, err |-> "panic"]}
         ELSE {[data |-> store_new(stored_data, nk, nv), err |-> "nil"]}
    ELSE LET ov == stored_data.m[nk]
             put(v) == GoMap((nk :> v) @@ stored_data.m)
         IN  IF drop_new(ov, nv)
             THEN {[data |-> stored_data, err |-> "nil"]}
             ELSE IF ~is_num(ov)
             THEN IF nv.kind # ov.kind
                  THEN {[data |-> put(nv), err |-> "nil"]}
                  ELSE IF is_map(nv.kind)
                  THEN IF ~asserted(ov, nv)
                       THEN {[data |-> stored_data, err |-> "error"]}
                       ELSE {[data |-> put(Map(r.data.m)), err |-> r.err] :
                                 r \in aggregate(GoMap(ov.o), GoMap(nv.o))}
                  ELSE IF nv.kind = "Slice"
                  THEN IF ~asserted(ov, nv)
                       THEN {[data |-> stored_data, err |-> "error"]}
                       ELSE {[data |-> put(Slice(append(ov.a, nv.a))), err |-> "nil"]}
                  ELSE {[data |-> put(nv), err |-> "nil"]}
             ELSE {[data |-> put(sum(ov, nv)), err |-> "nil"]}

\* the loop left after the first field it visits
range_loop_one(stored_data, this_data, todo) ==
    IF todo = {}
    THEN {[data |-> stored_data, err |-> "nil"]}
    ELSE UNION { visit(stored_data, nk, this_data.m[nk]) : nk \in todo }

\* Line 204: `for nk, nv := range this_data`, todo the fields not yet visited.
range_loop(stored_data, this_data, todo) ==
    IF todo = {}
    THEN {[data |-> stored_data, err |-> "nil"]}
    ELSE UNION { UNION { IF r.err = "nil"
                         THEN range_loop(r.data, this_data, todo \ {nk})
                         ELSE {r}
                         : r \in visit(stored_data, nk, this_data.m[nk]) }
                 : nk \in todo }

aggregate(stored_data, this_data) ==
    range_loop(stored_data, this_data, DOMAIN this_data.m)

(***************************************************************************)
(* JSON documents (the text of a payload, by its syntax tree) and          *)
(* encoding/json as process_file and write_data use it.                    *)
(***************************************************************************)
JNull      == Val("null",   FALSE, FALSE, 0, "", <<>>, <<>>)
JBool(b)   == Val("bool",   FALSE, b,     0, "", <<>>, <<>>)
JNumber(n) == Val("number", FALSE, FALSE, n, "", <<>>, <<>>)
JString(s) == Val("string", FALSE, FALSE, 0, s,  <<>>, <<>>)
JObject(o) == Val("object", FALSE, FALSE, 0, "", o,    <<>>)
JArray(a)  == Val("array",  FALSE, FALSE, 0, "", <<>>, a)

\* a payload: text that is a JSON document, or text that is not
Json(doc)  == [valid |-> TRUE,  doc |-> doc]
BadJson    == [valid |-> FALSE, doc |-> JNull]

\* The decoder's generic value tree: every JSON number becomes a float64,
\* null the nil interface, an object a map[string]interface{}, an array a
\* []interface{}.
\* a decoder that gives an int64 for a JSON number
RECURSIVE decode_value_int64(_)
decode_value_int64(j) ==
    CASE j.kind = "null"   -> Nil
      [] j.kind = "bool"   -> Bool(j.b)
      [] j.kind = "number" -> Int64(j.n)
      [] j.kind = "string" -> String(j.s)
      [] j.kind = "object" -> Map([f \in DOMAIN j.o |-> decode_value_int64(j.o[f])])
      [] j.kind = "array"  -> Slice([i \in DOMAIN j.a |-> decode_value_int64(j.a[i])])

RECURSIVE decode_value(_)
decode_value(j) ==
    CASE j.kind = "null"   -> Nil
      [] j.kind = "bool"   -> Bool(j.b)
      [] j.kind = "number" -> Float64(j.n)
      [] j.kind = "string" -> String(j.s)
      [] j.kind = "object" -> Map([f \in DOMAIN j.o |-> decode_value(j.o[f])])
      [] j.kind = "array"  -> Slice([i \in DOMAIN j.a |-> decode_value(j.a[i])])

\* Unmarshal whose error is never seen (the `continue` of line 179 not taken)
Unmarshal_no_error(payload) ==
    IF payload.valid /\ payload.doc.kind = "object"
    THEN [err |-> FALSE, this_data |-> GoMap(decode_value(payload.doc).o)]
    ELSE [err |-> FALSE, this_data |-> EmptyMap]

\* Lines 175-176: this_data := make(map[string]interface{});
\* err := json.Unmarshal(payload, &this_data).  A syntax error or a document
\* that is not an object nor null is an error and leaves this_data as made;
\* the document null is no error and sets this_data to the nil map.
Unmarshal(payload) ==
    IF ~payload.valid
    THEN [err |-> TRUE, this_data |-> EmptyMap]
    ELSE IF payload.doc.kind = "null"
    THEN [err |-> FALSE, this_data |-> NilMap]
    ELSE IF payload.doc.kind = "object"
    THEN [err |-> FALSE, this_data |-> GoMap(decode_value(payload.doc).o)]
    ELSE [err |-> TRUE, this_data |-> EmptyMap]

\* json.Marshal of a stored value
RECURSIVE encode_value(_)
encode_value(v) ==
    CASE v.kind = "Invalid" -> JNull
      [] v.kind = "Bool"    -> JBool(v.b)
      [] v.kind \in {"Float64", "Int64", "Uint64"} -> JNumber(v.n)
      [] v.kind = "String"  -> JString(v.s)
      [] v.kind = "Map"     -> JObject([f \in DOMAIN v.o |-> encode_value(v.o[f])])
      [] v.kind = "Slice"   -> JArray([i \in DOMAIN v.a |-> encode_value(v.a[i])])

Marshal(v) == IF v.isnil THEN JNull ELSE encode_value(Map(v.m))

\* write_data: one output line per key of ctx.Data; the lines of one call,
\* as a set (the order of the lines within a call is not modelled).
write_data(Data) ==
    {[key |-> k, serialized |-> Marshal(Data[k])] : k \in DOMAIN Data}

(***************************************************************************)
(* Input lines.  ndelim is the number of occurrences of the delimiter in   *)
(* the line; key is the text before the first one, payload the rest.       *)
(***************************************************************************)
Line(key, payload) == [ndelim |-> 1, key |-> key, payload |-> payload]
NoDelimLine        == [ndelim |-> 0, key |-> "foo", payload |-> BadJson]
NoLine             == [ndelim |-> 0, key |-> "", payload |-> BadJson]

\* a split that always gives two parts
SplitN_two(l) == <<l.key, l.payload>>

\* strings.SplitN(line, ctx.Delimiter, 2)
SplitN(l) == IF l.ndelim = 0 THEN <<l.key>> ELSE <<l.key, l.payload>>

\* the threshold test with > for >=
need_flush_gt(limit, len) == limit > 0 /\ len > limit

\* line 184: the threshold test made before a new key is inserted
need_flush(limit, len) == limit > 0 /\ len >= limit

\* the empty ctx.Data
NoData == <<>>

(***************************************************************************)
(* Lines 168-197: the body of the scan loop for one line; the set of       *)
(* outcomes (one per order aggregate can visit the fields in).             *)
(*   pc   "scan": the loop goes on; "fatal": log.Fatalf; "panic"           *)
(*   did  what the line did: "fatal", "skip", "insert", "flush", "merge",  *)
(*        "error" (aggregate returned an error), "panic"                   *)
(***************************************************************************)
process_line(Data, Limit, out, l) ==
    LET parts == SplitN(l)
    IN  IF Len(parts) < 2
        THEN {[Data |-> Data, out |-> out, pc |-> "fatal", did |-> "fatal"]}
        ELSE
        LET u   == Unmarshal(parts[2])
            key == parts[1]
        IN  IF u.err
            THEN {[Data |-> Data, out |-> out, pc |-> "scan", did |-> "skip"]}
            ELSE IF key \notin DOMAIN Data
            THEN IF need_flush(Limit, Cardinality(DOMAIN Data))
                 THEN {[Data |-> (key :> u.this_data),
                        out  |-> Append(out, write_data(Data)),
                        pc   |-> "scan", did |-> "flush"]}
                 ELSE {[Data |-> (key :> u.this_data) @@ Data,
                        out  |-> out,
                        pc   |-> "scan", did |-> "insert"]}
            ELSE {[Data |-> (key :> r.data) @@ Data,
                   out  |-> out,
                   pc   |-> IF r.err = "panic" THEN "panic" ELSE "scan",
                   did  |-> IF r.err = "nil" THEN "merge" ELSE r.err] :
                      r \in aggregate(Data[key], u.this_data)}

(***************************************************************************)
(* dstatsaggjson.go, the earlier program: process_file merges a record     *)
(* into the stored map in its own loop, with no aggregate function, no     *)
(* nested merge, no concatenation and no limit.  Its is_num_type (lines    *)
(* 229-258) and its sums (lines 179-224) are the text of statsaggjs.go,    *)
(* modelled by is_num and sum above.                                       *)
(***************************************************************************)
\* the old value kept
replace_d_keeps_old(ov, nv) == ov

\* dstatsaggjson.go lines 171-177: the old value is not numeric, the new
\* value is stored whatever its kind
replace_d(ov, nv) == nv

\* dstatsaggjson.go lines 147-224: the loop body for one field nk
merge_field_d(stored, nk, nv) ==
    IF nk \notin DOMAIN stored.m
    THEN IF stored.isnil
         THEN [data |-> stored, err |-> "panic"]
         ELSE [data |-> GoMap((nk :> nv) @@ stored.m), err |-> "nil"]
    ELSE LET ov == stored.m[nk]
             put(v) == [data |-> GoMap((nk :> v) @@ stored.m), err |-> "nil"]
         IN  IF is_num(ov) /\ ~is_num(nv)
             THEN [data |-> stored, err |-> "nil"]
             ELSE IF ~is_num(ov)
             THEN put(replace_d(ov, nv))
             ELSE put(sum(ov, nv))

\* dstatsaggjson.go line 146: `for nk, nv := range this_data`, over the
\* orders the loop can take; todo the fields not yet visited
RECURSIVE merge_fields_d(_, _, _)
merge_fields_d(stored, this_data, todo) ==
    IF todo = {}
    THEN {[data |-> stored, err |-> "nil"]}
    ELSE UNION { LET r == merge_field_d(stored, nk, this_data.m[nk])
                 IN  IF r.err = "nil"
                     THEN merge_fields_d(r.data, this_data, todo \ {nk})
                     ELSE {r}
                 : nk \in todo }

\* dstatsaggjson.go lines 126-225: one turn of the scan loop on line l
process_line_d(Data, l) ==
    LET parts == SplitN(l)
    IN  IF Len(parts) < 2
        THEN {[Data |-> Data, pc |-> "fatal"]}
        ELSE
        LET u   == Unmarshal(parts[2])
            key == parts[1]
        IN  IF u.err
            THEN {[Data |-> Data, pc |-> "scan"]}
            ELSE IF key \notin DOMAIN Data
            THEN {[Data |-> (key :> u.this_data) @@ Data, pc |-> "scan"]}
            ELSE {[Data |-> (key :> r.data) @@ Data,
                   pc   |-> IF r.err = "panic" THEN "panic" ELSE "scan"] :
                      r \in merge_fields_d(Data[key], u.this_data,
                                           DOMAIN u.this_data.m)}

(***************************************************************************)
(* The input alphabet of Spec.                                             *)
(***************************************************************************)
Absent == Val("absent", FALSE, FALSE, 0, "", <<>>, <<>>)

\* the object with field x (unless Absent) and field y (unless Absent)
Obj2(x, y) ==
    [f \in {g \in Fields : (g = "x" /\ x # Absent) \/ (g = "y" /\ y # Absent)} |->
        IF f = "x" THEN x ELSE y]

XDocs == {JNull, JBool(TRUE), JNumber(1), JNumber(2), JString("a"),
          JArray(<<JString("a")>>), JArray(<<JString("b")>>),
          JObject("y" :> JNumber(1))}

\* objects with field x alone, and {}, {"y":1}, {"x":1,"y":1}
ObjectDocs == {JObject(Obj2(x, Absent)) : x \in XDocs \cup {Absent}}
                  \cup {JObject(Obj2(x, JNumber(1))) : x \in {Absent, JNumber(1)}}

Payloads == {BadJson, Json(JNull), Json(JNumber(1))} \cup {Json(d) : d \in ObjectDocs}

\* the other keys are there for what needs several keys (insertion next to
\* another key, the threshold flush); they get a few payloads only
BarPayloads == {Json(JNull),
                Json(JObject("x" :> JNumber(2))),
                Json(JObject("x" :> JArray(<<JString("b")>>)))}
BazPayloads == {Json(JObject("x" :> JNumber(2)))}

Lines == {NoDelimLine} \cup {Line("foo", p) : p \in Payloads}
                      \cup {Line("bar", p) : p \in BarPayloads}
                      \cup {Line("baz", p) : p \in BazPayloads}

(***************************************************************************)
(* Spec: main and process_file.                                            *)
(*   Limit   ctx.Limit (-limit)                                            *)
(*   Data    ctx.Data: key -> stored map                                   *)
(*   out     what was written to ctx.Writer: one entry per write_data call *)
(*   pc      "main"  in main, before the next input is opened              *)
(*           "scan"  in the scan loop of process_file                      *)
(*           "done"  main returned; "fatal" log.Fatalf; "panic"            *)
(*   line    the line scanned last, did what it did (see process_line)     *)
(*   nlines  lines scanned so far                                          *)
(*   files   len(flag.Args()); fileno  inputs opened so far                *)
(*   recs    history: for each key, the decoded records that went into     *)
(*           its stored map since the key was inserted in ctx.Data         *)
(***************************************************************************)
VARIABLES Limit, Data, out, pc, line, did, nlines, files, fileno, recs

\* SpecAgg: the two arguments of one call of aggregate, and what it returned
VARIABLES stored_val, this_val, ret

\* dstatsaggjson reading the same lines: its store (ctx.Data of
\* dstatsaggjson.go) and where it is ("scan", "fatal", "panic")
VARIABLES Data_d, pc_d

mainvars == <<Limit, Data, out, pc, line, did, nlines, files, fileno, recs>>
aggvars  == <<stored_val, this_val, ret>>
dvars    == <<Data_d, pc_d>>
vars     == <<mainvars, aggvars, dvars>>

NoRet == [data |-> NilMap, err |-> "none"]

NoRecs == [k \in Keys |-> <<>>]

Init ==
    /\ stored_val = NilMap /\ this_val = NilMap /\ ret = NoRet
    /\ Data_d = NoData /\ pc_d = "scan"
    /\ Limit \in 0..MaxLimit
    /\ files \in 0..MaxFiles
    /\ Data = NoData
    /\ out = <<>>
    /\ pc = "main"
    /\ line = NoLine
    /\ did = "none"
    /\ nlines = 0
    /\ fileno = 0
    /\ recs = NoRecs

\* lines 136-137: no file argument, standard input is read
ReadStdin ==
    /\ pc = "main" /\ files = 0 /\ fileno = 0
    /\ fileno' = 1
    /\ pc' = "scan"
    /\ UNCHANGED <<Limit, Data, out, line, did, nlines, files, recs>>
    /\ UNCHANGED <<aggvars, dvars>>

\* lines 139-144: the next file is opened
OpenFile ==
    /\ pc = "main" /\ fileno < files
    /\ fileno' = fileno + 1
    /\ pc' = "scan"
    /\ UNCHANGED <<Limit, Data, out, line, did, nlines, files, recs>>
    /\ UNCHANGED <<aggvars, dvars>>

\* lines 141-143: os.Open fails
OpenFails ==
    /\ pc = "main" /\ fileno < files
    /\ pc' = "fatal"
    /\ UNCHANGED <<Limit, Data, out, line, did, nlines, files, fileno, recs>>
    /\ UNCHANGED <<aggvars, dvars>>

\* the history after a line with outcome r
recs_after(r, l) ==
    LET td == Unmarshal(l.payload).this_data
    IN  CASE r.did = "insert" -> [recs EXCEPT ![l.key] = <<td>>]
          [] r.did = "flush"  -> [NoRecs EXCEPT ![l.key] = <<td>>]
          [] r.did \in {"merge", "error"} -> [recs EXCEPT ![l.key] = Append(@, td)]
          [] OTHER -> recs

\* lines 167-198: one turn of the scan loop
ScanLine ==
    /\ pc = "scan" /\ nlines < MaxLines
    /\ \E l \in Lines : \E r \in process_line(Data, Limit, out, l) :
          /\ line' = l
          /\ did' = r.did
          /\ Data' = r.Data
          /\ out' = r.out
          /\ pc' = r.pc
          /\ recs' = recs_after(r, l)
          /\ IF pc_d = "scan"
             THEN \E rd \in process_line_d(Data_d, l) :
                      Data_d' = rd.Data /\ pc_d' = rd.pc
             ELSE UNCHANGED dvars
    /\ nlines' = nlines + 1
    /\ UNCHANGED <<Limit, files, fileno>>
    /\ UNCHANGED aggvars

\* line 167: scanner.Scan() returns false; process_file returns (line 145)
EndOfFile ==
    /\ pc = "scan"
    /\ pc' = "main"
    /\ UNCHANGED <<Limit, Data, out, line, did, nlines, files, fileno, recs>>
    /\ UNCHANGED <<aggvars, dvars>>

\* line 149: write_data(ctx, writer) after the last input
WriteAll ==
    /\ pc = "main" /\ fileno >= files /\ fileno > 0
    /\ out' = Append(out, write_data(Data))
    /\ pc' = "done"
    /\ UNCHANGED <<Limit, Data, line, did, nlines, files, fileno, recs>>
    /\ UNCHANGED <<aggvars, dvars>>

Next == ReadStdin \/ OpenFile \/ OpenFails \/ ScanLine \/ EndOfFile \/ WriteAll

Spec == Init /\ [][Next]_vars

TypeOK ==
    /\ Limit \in 0..MaxLimit
    /\ pc \in {"main", "scan", "done", "fatal", "panic"}
    /\ DOMAIN Data \subseteq Keys
    /\ nlines \in 0..MaxLines

(***************************************************************************)
(* SpecAgg: one call aggregate(ctx, stored_val, this_val) on maps of Go  *)
(* values of every kind the function switches on, nested up to MaxNest.    *)
(* pc is "call" before the call and "return" after it.                     *)
(***************************************************************************)
AggLeaf == {Nil, Bool(TRUE), Bool(FALSE), String("a"), String("b"),
            Float64(1), Float64(2), Int64(1), Uint64(1),
            Int64(-1), Int64(MaxInt64), Int64(MinInt64),
            Uint64(MaxInt64 + 1), Uint64(MaxUint64),
            Slice(<<>>), Slice(<<String("a")>>), Slice(<<String("b")>>),
            OtherMap, OtherSlice}

NestLeaf == {Float64(1), String("a"), OtherMap}

RECURSIVE NestObjs(_)
NestObjs(d) ==
    IF d <= 1
    THEN {Obj2(x, y) : x \in NestLeaf \cup {Absent}, y \in NestLeaf \cup {Absent}}
    ELSE NestObjs(d - 1) \cup {("x" :> Map(o)) : o \in NestObjs(d - 1)}

AggX == AggLeaf \cup {Map(o) : o \in NestObjs(MaxNest)}
AggY == NestLeaf

AggMaps == {NilMap} \cup {GoMap(Obj2(x, y)) : x \in AggX \cup {Absent}, y \in AggY \cup {Absent}}

AggInit ==
    /\ stored_val \in AggMaps
    /\ this_val \in AggMaps
    /\ ret = NoRet
    /\ pc = "call"
    /\ Limit = 0 /\ files = 0 /\ Data = NoData /\ out = <<>> /\ line = NoLine
    /\ did = "none" /\ nlines = 0 /\ fileno = 0 /\ recs = NoRecs
    /\ Data_d = NoData /\ pc_d = "scan"

Aggregate ==
    /\ pc = "call"
    /\ ret' \in aggregate(stored_val, this_val)
    /\ pc' = "return"
    /\ UNCHANGED <<stored_val, this_val, Limit, Data, out, line, did, nlines,
                   files, fileno, recs>>
    /\ UNCHANGED dvars

AggNext == Aggregate

SpecAgg == AggInit /\ [][AggNext]_vars

(***************************************************************************)
(* Properties of one call of aggregate (SpecAgg).                          *)
(***************************************************************************)
NumericKinds == {"Int64", "Uint64", "Float64"}
ScalarKinds  == {"Invalid", "Bool", "String"}

\* the fields the stored map and the incoming map have in common
Common == (DOMAIN stored_val.m) \cap (DOMAIN this_val.m)

old(k)    == stored_val.m[k]
new(k)    == this_val.m[k]
after(k)  == ret.data.m[k]
Returned  == pc = "return"
Merged    == pc = "return" /\ ret.err = "nil"

\* C1: a field that is numeric in the stored map and non-numeric in the
\* incoming map has, after the call, exactly the value and kind it had
\* before (whatever the call returns).
C1_NumericSticky ==
    Returned =>
        \A k \in Common :
            (old(k).kind \in NumericKinds /\ new(k).kind \notin NumericKinds)
                => (k \in DOMAIN ret.data.m /\ after(k) = old(k))

C1_Witness ==
    /\ Merged
    /\ "x" \in Common /\ "y" \in Common
    /\ old("x") = Float64(1) /\ new("x") = Map("x" :> String("a"))
    /\ old("y") = Float64(1) /\ new("y") = String("a")
    /\ after("x") = Float64(1) /\ after("y") = Float64(1)

\* C3: when a field holds a map[string]interface{} on both sides, the call
\* leaves there the result of aggregate on the two nested maps: sub-fields
\* the incoming map does not name are kept, sub-fields only the incoming map
\* names are added, and a sub-field of both follows the rules of the top
\* level (numeric-sticky, sum of two numbers, replacement otherwise).
C3_NestedMerge ==
    Merged =>
        \A k \in Common :
            (old(k).kind = "Map" /\ new(k).kind = "Map" /\ old(k).generic /\ new(k).generic)
            => /\ k \in DOMAIN ret.data.m
               /\ after(k).kind = "Map" /\ after(k).generic
               /\ [data |-> GoMap(after(k).o), err |-> "nil"]
                      \in aggregate(GoMap(old(k).o), GoMap(new(k).o))
               /\ DOMAIN after(k).o = (DOMAIN old(k).o) \cup (DOMAIN new(k).o)
               /\ \A f \in DOMAIN after(k).o :
                     LET o == old(k).o
                         n == new(k).o
                         r == after(k).o[f]
                     IN  IF f \notin DOMAIN n THEN r = o[f]
                         ELSE IF f \notin DOMAIN o THEN r = n[f]
                         ELSE IF o[f].kind \in NumericKinds
                         THEN IF n[f].kind \in NumericKinds
                              THEN r.kind \in NumericKinds /\ r.n = o[f].n + n[f].n
                              ELSE r = o[f]
                         ELSE IF o[f].kind # n[f].kind \/ o[f].kind \in ScalarKinds
                         THEN r = n[f]
                         ELSE r.kind = o[f].kind

\* three levels deep: {"x":{"x":{"y":1}}} merged with itself
C3_Witness ==
    /\ Merged
    /\ stored_val = GoMap("x" :> Map("x" :> Map("y" :> Float64(1))))
    /\ this_val   = GoMap("x" :> Map("x" :> Map("y" :> Float64(1))))
    /\ ret.data   = GoMap("x" :> Map("x" :> Map("y" :> Float64(2))))

\* C5: a field whose stored value is not numeric takes the incoming value
\* when the incoming value has another kind (a numeric one included) or the
\* same scalar kind (nil, bool, string).
C5_LastWriteWins ==
    Merged =>
        \A k \in Common :
            (/\ old(k).kind \notin NumericKinds
             /\ (new(k).kind # old(k).kind \/ old(k).kind \in ScalarKinds))
                => after(k) = new(k)

C5_Witness ==
    /\ Merged
    /\ "x" \in Common /\ "y" \in Common
    /\ old("x") = String("a") /\ new("x") = String("b")
    /\ old("y") = String("a") /\ new("y") = Float64(1)
    /\ after("x") = String("b") /\ after("y") = Float64(1)

\* A value of kind Map (Slice) on both sides, one of which is not a
\* map[string]interface{} ([]interface{}): the structural violation.
Clash(ov, nv) ==
    /\ ov.kind = nv.kind
    /\ ov.kind \in {"Map", "Slice"}
    /\ ~(ov.generic /\ nv.generic)

\* ... at this field or somewhere in the nested maps merged for it
RECURSIVE DeepClash(_, _)
DeepClash(ov, nv) ==
    \/ Clash(ov, nv)
    \/ /\ ov.kind = "Map" /\ nv.kind = "Map" /\ ov.generic /\ nv.generic
       /\ \E f \in (DOMAIN ov.o) \cap (DOMAIN nv.o) : DeepClash(ov.o[f], nv.o[f])

Violated(k) == k \in Common /\ Clash(old(k), new(k))
Broken(k)   == k \in Common /\ DeepClash(old(k), new(k))

\* field j is as it was before the call
Untouched(j) ==
    IF j \in DOMAIN stored_val.m
    THEN j \in DOMAIN ret.data.m /\ after(j) = old(j)
    ELSE j \notin DOMAIN ret.data.m

\* field j is as a call with the one-field record {j: new(j)} leaves it
MergedNormally(j) ==
    /\ j \in DOMAIN ret.data.m
    /\ \A r \in visit(stored_val, j, new(j)) : r.err = "nil" /\ after(j) = r.data.m[j]

Gives(r, f)    == ~r.isnil /\ f \in DOMAIN r.m
GivesNum(r, f) == Gives(r, f) /\ r.m[f].kind \in NumericKinds
GivesArr(r, f) == Gives(r, f) /\ r.m[f].kind = "Slice"

\* the sum of the numbers the records rs give field f
RECURSIVE NumSum(_, _)
NumSum(rs, f) ==
    IF rs = <<>> THEN 0
    ELSE (IF GivesNum(Head(rs), f) THEN Head(rs).m[f].n ELSE 0) + NumSum(Tail(rs), f)

\* the arrays the records rs give field f, one after the other
RECURSIVE ArrCat(_, _)
ArrCat(rs, f) ==
    IF rs = <<>> THEN <<>>
    ELSE (IF GivesArr(Head(rs), f) THEN Head(rs).m[f].a ELSE <<>>) \o ArrCat(Tail(rs), f)

\* this step scans a line
Scans == nlines' = nlines + 1

\* C2: for a key in the store and a top-level field, if one of the records
\* ingested for the key since it entered the store (no flush in between)
\* gave the field a number, the field holds the sum of all the numbers these
\* records gave it, whatever else they gave it in between.
C2_NumericSum ==
    \A k \in DOMAIN Data : \A f \in Fields :
        (\E i \in DOMAIN recs[k] : GivesNum(recs[k][i], f))
            => /\ Gives(Data[k], f)
               /\ Data[k].m[f].kind \in NumericKinds
               /\ Data[k].m[f].n = NumSum(recs[k], f)

\* 1, then an array (dropped), then 2
C2_Witness ==
    /\ "foo" \in DOMAIN Data
    /\ Len(recs["foo"]) = 3
    /\ GivesNum(recs["foo"][1], "x") /\ recs["foo"][1].m["x"].n = 1
    /\ GivesArr(recs["foo"][2], "x")
    /\ GivesNum(recs["foo"][3], "x") /\ recs["foo"][3].m["x"].n = 2
    /\ Data["foo"].m["x"] = Float64(3)

\* C4: a merge that finds an array on both sides of a field leaves the old
\* array followed by the incoming one; and if all the records ingested for a
\* key that name a field gave it arrays A1, ..., An, the field holds
\* A1 \o ... \o An.
C4_ArrayConcat ==
    /\ [](\A k \in DOMAIN Data : \A f \in Fields :
            (/\ \E i \in DOMAIN recs[k] : Gives(recs[k][i], f)
             /\ \A i \in DOMAIN recs[k] : Gives(recs[k][i], f) => GivesArr(recs[k][i], f))
                => /\ Gives(Data[k], f)
                   /\ Data[k].m[f] = Slice(ArrCat(recs[k], f)))
    /\ [][(Scans /\ did' = "merge") =>
            LET k  == line'.key
                td == recs'[k][Len(recs'[k])]
            IN  \A f \in Fields :
                   (GivesArr(Data[k], f) /\ GivesArr(td, f))
                       => Data'[k].m[f] = Slice(Data[k].m[f].a \o td.m[f].a)]_vars

C4_Witness ==
    /\ "foo" \in DOMAIN Data
    /\ Len(recs["foo"]) = 3
    /\ \A i \in 1..3 : GivesArr(recs["foo"][i], "x")
    /\ Data["foo"].m["x"] = Slice(<<String("a"), String("b"), String("a")>>)

\* C6: every stored map is an object (never the nil map, which is written
\* as null), and a line whose payload is not a JSON object is neither stored
\* nor merged.
C6_ObjectsOnly ==
    /\ \A k \in DOMAIN Data : ~Data[k].isnil
    /\ did \in {"insert", "flush", "merge", "error", "panic"}
           => (line.payload.valid /\ line.payload.doc.kind = "object")

\* C7: a line whose payload is not JSON changes neither the store nor the
\* output, and the scan goes on.
C7_BadJsonSkipped ==
    [][(Scans /\ line'.ndelim > 0 /\ ~line'.payload.valid)
          => (Data' = Data /\ out' = out /\ recs' = recs /\ pc' = "scan")]_vars

\* an unparsable line came between two lines of foo, which were summed
C7_Witness ==
    /\ nlines = 3
    /\ recs["foo"] = <<GoMap("x" :> Float64(1)), GoMap("x" :> Float64(2))>>
    /\ Data["foo"] = GoMap("x" :> Float64(3))
    /\ line.key = "foo" /\ line.payload = Json(JObject("x" :> JNumber(2)))

\* C9: with Limit > 0 the store never holds more than Limit keys; a record
\* that parsed and whose key is not in the store, arriving when the store
\* holds Limit keys or more, makes the whole store be written and then holds
\* alone in the new store.
C9_FullFlush ==
    /\ [](Limit > 0 => Cardinality(DOMAIN Data) <= Limit)
    /\ [][(/\ Scans
           /\ line'.ndelim > 0
           /\ line'.payload.valid
           /\ line'.payload.doc.kind \in {"object", "null"}
           /\ line'.key \notin DOMAIN Data
           /\ Limit > 0
           /\ Cardinality(DOMAIN Data) >= Limit)
          => /\ Len(out') = Len(out) + 1
             /\ SubSeq(out', 1, Len(out)) = out
             /\ {l.key : l \in out'[Len(out')]} = DOMAIN Data
             /\ out'[Len(out')] = write_data(Data)
             /\ DOMAIN Data' = {line'.key}
             /\ Len(recs'[line'.key]) = 1
             /\ \A k \in Keys \ {line'.key} : recs'[k] = <<>>]_vars

\* Limit 1, two keys: two writes of one line each
C9_Witness ==
    /\ Limit = 1
    /\ pc = "done"
    /\ nlines = 2
    /\ Len(out) = 2
    /\ {l.key : l \in out[1]} = {"foo"}
    /\ {l.key : l \in out[2]} = {"bar"}

\* C10: a line without the delimiter ends the run there: the step writes
\* nothing and changes no stored map, and no step follows it.
C10_NoDelimFatal ==
    /\ []((nlines > 0 /\ line.ndelim = 0) => pc = "fatal")
    /\ [][pc # "fatal"]_vars
    /\ [][(Scans /\ line'.ndelim = 0) => (out' = out /\ Data' = Data /\ pc' = "fatal")]_vars

\* the fatal line came after a threshold flush, whose output is all there is
C10_Witness ==
    /\ pc = "fatal"
    /\ line.ndelim = 0
    /\ nlines = 3
    /\ Len(out) = 1
    /\ DOMAIN Data # {}

(***************************************************************************)
(* Fields inside the stored maps, by their path from the top level.        *)
(***************************************************************************)
Paths == {<<f>> : f \in Fields} \cup {<<f, g>> : f \in Fields, g \in Fields}

\* the value v has a field at path p (through nested maps)
RECURSIVE HasAt(_, _)
HasAt(v, p) ==
    IF p = <<>> THEN TRUE
    ELSE /\ v.kind = "Map"
         /\ Head(p) \in DOMAIN v.o
         /\ HasAt(v.o[Head(p)], Tail(p))

\* the value of v at path p
RECURSIVE At(_, _)
At(v, p) == IF p = <<>> THEN v ELSE At(v.o[Head(p)], Tail(p))

NumericAt(v, p) == HasAt(v, p) /\ At(v, p).kind \in NumericKinds

\* the stored map of key k as a value
Acc(D, k) == Map(D[k].m)

\* the keys that stay in the store over this step
Staying == (DOMAIN Data) \cap (DOMAIN Data')

\* C11 as claimed: a field, at the top level or nested, that holds a number
\* holds a number after every step that keeps its key in the store.
C11_StickyAnywhere ==
    [][\A k \in Staying : \A p \in Paths :
          NumericAt(Acc(Data, k), p) => NumericAt(Acc(Data', k), p)]_vars

\* C11 as amended: a top-level field that holds a number holds a number
\* after every step that keeps its key in the store; so does a nested field
\* unless the step replaced an object that contains it by a value that is
\* not an object.
C11_StickyUnlessReplaced ==
    [][\A k \in Staying : \A p \in Paths :
          (/\ NumericAt(Acc(Data, k), p)
           /\ \A i \in 1..(Len(p) - 1) :
                 /\ HasAt(Acc(Data', k), SubSeq(p, 1, i))
                 /\ At(Acc(Data', k), SubSeq(p, 1, i)).kind = "Map")
             => /\ NumericAt(Acc(Data', k), p)
                /\ At(Acc(Data', k), p).n >= At(Acc(Data, k), p).n]_vars

\* x took 1, then a string (dropped), then 2
C11_Witness ==
    /\ "foo" \in DOMAIN Data
    /\ Len(recs["foo"]) = 3
    /\ recs["foo"][1] = GoMap(Obj2(Float64(1), Float64(1)))
    /\ recs["foo"][2] = GoMap("x" :> String("a"))
    /\ recs["foo"][3] = GoMap("x" :> Float64(2))
    /\ Data["foo"] = GoMap(Obj2(Float64(3), Float64(1)))

\* the record this step decoded and ingested (the last one of its key's history)
Ingested == recs'[line'.key][Len(recs'[line'.key])]

\* C12: a record for a key that is not in the store becomes the stored map
\* as decoded; a merge adds every field the stored map does not have with
\* the incoming value, and keeps every field the record does not name; so
\* for disjoint field sets the stored map ends with the union of the two.
C12_DisjointUnion ==
    [][/\ (Scans /\ did' \in {"insert", "flush"})
            => /\ Data'[line'.key] = Ingested
               /\ line'.payload.doc.kind = "object"
                     => /\ ~Data'[line'.key].isnil
                        /\ Map(Data'[line'.key].m) = decode_value(line'.payload.doc)
       /\ (Scans /\ did' = "merge" /\ ~Data[line'.key].isnil)
            => LET k   == line'.key
                   acc == Data[k].m
                   td  == Ingested.m
                   res == Data'[k].m
               IN  /\ ~Data'[k].isnil
                   /\ DOMAIN res = (DOMAIN acc) \cup (DOMAIN td)
                   /\ \A f \in (DOMAIN td) \ (DOMAIN acc) : res[f] = td[f]
                   /\ \A f \in (DOMAIN acc) \ (DOMAIN td) : res[f] = acc[f]
                   /\ \A o \in Staying \ {k} : Data'[o] = Data[o]]_vars

\* {"x":{"y":1}} then {"y":1}: disjoint, the union is stored
C12_Witness ==
    /\ "foo" \in DOMAIN Data
    /\ did = "merge"
    /\ recs["foo"] = <<GoMap("x" :> Map("y" :> Float64(1))), GoMap("y" :> Float64(1))>>
    /\ Data["foo"] = GoMap(Obj2(Map("y" :> Float64(1)), Float64(1)))


\* a and b differ by a multiple of 2^IntBits
SameMod(a, b) == (a - b) % TwoTo(IntBits) = 0

\* C13: a field numeric on both sides holds, after a call that returns no
\* error: for two unsigned values the unsigned (old + new) mod 2^w; for two
\* signed values the signed value of the w-bit sum; for values of differing
\* signedness the signed value of the w-bit sum of the two bit patterns;
\* and a float, old + new, exactly when one of the two is a float (w is
\* IntBits, standing for 64).
C13_SumSubkind ==
    Merged =>
        \A k \in Common :
            (old(k).kind \in NumericKinds /\ new(k).kind \in NumericKinds)
            => /\ k \in DOMAIN ret.data.m
               /\ after(k).kind \in NumericKinds
               /\ (after(k).kind = "Float64")
                     <=> (old(k).kind = "Float64" \/ new(k).kind = "Float64")
               /\ after(k).kind = "Float64" => after(k).n = old(k).n + new(k).n
               /\ (old(k).kind = "Uint64" /\ new(k).kind = "Uint64")
                     => /\ after(k).kind = "Uint64"
                        /\ after(k).n = (old(k).n + new(k).n) % TwoTo(IntBits)
               /\ ({old(k).kind, new(k).kind} \subseteq {"Int64", "Uint64"}
                       /\ "Int64" \in {old(k).kind, new(k).kind})
                     => /\ after(k).kind = "Int64"
                        /\ after(k).n \in MinInt64..MaxInt64
                        /\ SameMod(after(k).n, old(k).n + new(k).n)

\* the largest unsigned value plus a signed 1 gives the signed 0
C13_Witness ==
    /\ Merged
    /\ "x" \in Common
    /\ old("x") = Uint64(MaxUint64) /\ new("x") = Int64(1)
    /\ after("x") = Int64(0)


\* the number a JSON document gives for top-level field f (0 when it gives none)
NumOf(doc, f) ==
    IF doc.kind = "object" /\ f \in DOMAIN doc.o /\ doc.o[f].kind = "number"
    THEN doc.o[f].n ELSE 0

\* the total of field f over the output lines written for key k
RECURSIVE Emitted(_, _, _)
Emitted(o, k, f) ==
    IF o = <<>> THEN 0
    ELSE LET batch == o[Len(o)]
             here  == {ln \in batch : ln.key = k}
         IN  Emitted(SubSeq(o, 1, Len(o) - 1), k, f)
               + (IF here = {} THEN 0 ELSE NumOf((CHOOSE ln \in here : TRUE).serialized, f))

\* what the store holds for k and f, still to be written
Pending(D, k, f) == IF k \in DOMAIN D THEN NumOf(Marshal(D[k]), f) ELSE 0

\* written so far, plus held in the store while the program is running
Accounted(o, D, p, k, f) ==
    Emitted(o, k, f) + (IF p \in {"main", "scan"} THEN Pending(D, k, f) ELSE 0)

\* what this step's line gives for k and f, when its payload was decoded
Parsed(k, f) ==
    IF Scans /\ did' \notin {"fatal", "skip"} /\ line'.key = k
    THEN NumOf(line'.payload.doc, f) ELSE 0

Conserves ==
    \A k \in Keys : \A f \in Fields :
        Accounted(out', Data', pc', k, f) = Accounted(out, Data, pc, k, f) + Parsed(k, f)

\* C14: in a run that meets no fatal line, every step keeps, for each key
\* and top-level field, the total of the output lines written so far plus
\* the stored value equal to the total of the values the decoded records
\* gave, and when the program ends all of it has been written.
C14_NothingLost == [][pc' # "fatal" => Conserves]_vars

\* the same, for the steps in which the program does not panic either
FlushConserves == [][pc' \notin {"fatal", "panic"} => Conserves]_vars

\* a run with a flush that ended: x of foo was written as 1 and again as 2
FlushWitness ==
    /\ pc = "done" /\ Len(out) = 2
    /\ Emitted(out, "foo", "x") = 3


\* no value of an integer kind in v, at any depth of maps and slices
RECURSIVE NoInteger(_)
NoInteger(v) ==
    CASE v.kind \in {"Int64", "Uint64"} -> FALSE
      [] v.kind = "Map"   -> v.generic => \A f \in DOMAIN v.o : NoInteger(v.o[f])
      [] v.kind = "Slice" -> v.generic => \A i \in DOMAIN v.a : NoInteger(v.a[i])
      [] OTHER -> TRUE

\* C15: every number in every stored map, and in every decoded record that
\* was merged into one, is a float64 at any depth; so aggregate is never
\* called with an integer on either side and stores none.
C15_FloatOnly ==
    /\ \A k \in DOMAIN Data : NoInteger(Map(Data[k].m))
    /\ \A k \in Keys : \A i \in 1..Len(recs[k]) : NoInteger(Map(recs[k][i].m))

\* a nested sum: {"x":{"y":1}} twice gives the float64 2 at x.y
C15_Witness ==
    /\ "foo" \in DOMAIN Data
    /\ Len(recs["foo"]) = 2
    /\ Data["foo"] = GoMap("x" :> Map("y" :> Float64(2)))


\* the outcomes of the call over all the orders `range` can take, at every
\* level of nesting
Outcomes == aggregate(stored_val, this_val)

ContainerKinds == {"Map", "Slice"}

\* a record whose fields hold scalars only (nil, bool, string, number)
Flat(rec) == \A f \in DOMAIN rec.m : rec.m[f].kind \notin ContainerKinds

AllFlat == \A k \in Keys : \A i \in 1..Len(recs[k]) : Flat(recs[k][i])

\* the two stores hold the same for field f of key k (or both hold nothing)
SameAt(D, Dd, k, f) ==
    /\ k \in DOMAIN D <=> k \in DOMAIN Dd
    /\ k \in DOMAIN D =>
          /\ D[k].isnil = Dd[k].isnil
          /\ f \in DOMAIN D[k].m <=> f \in DOMAIN Dd[k].m
          /\ f \in DOMAIN D[k].m => D[k].m[f] = Dd[k].m[f]

\* field f holds an object or an array in the stored map of k and in rec
BothContainers(D, k, f, rec) ==
    /\ k \in DOMAIN D /\ f \in DOMAIN D[k].m /\ f \in DOMAIN rec.m
    /\ D[k].m[f].kind \in ContainerKinds
    /\ rec.m[f].kind \in ContainerKinds

\* dstatsaggjson stopped where statsaggjs did (at a line without delimiter,
\* or in a panic), or is scanning still
SamePlace == pc_d = IF did \in {"fatal", "panic"} THEN did ELSE "scan"

\* C17: with no limit, as long as every record merged so far had scalar
\* field values only, the two programs hold the same store and stopped at
\* the same line if they stopped; and a record leaves a field of its key
\* the same in both stores if the field was the same before, unless the
\* field holds an object or an array both in the stored map and in the
\* record.
C17_AgreeOnFlat ==
    /\ [](Limit = 0 => SamePlace /\ (AllFlat => Data_d = Data))
    /\ [][(Limit = 0 /\ Scans /\ did' \in {"insert", "merge"})
            => \A f \in Fields :
                  (SameAt(Data, Data_d, line'.key, f)
                     /\ ~BothContainers(Data, line'.key, f, Ingested))
                  => SameAt(Data', Data_d', line'.key, f)]_vars

\* flat records: x took "a", then 1, then 1 again with y
C17_Witness ==
    /\ Limit = 0
    /\ "foo" \in DOMAIN Data
    /\ recs["foo"] = <<GoMap("x" :> String("a")), GoMap("x" :> Float64(1)),
                       GoMap(Obj2(Float64(1), Float64(1)))>>
    /\ Data["foo"] = GoMap(Obj2(Float64(2), Float64(1)))
    /\ Data_d["foo"] = GoMap(Obj2(Float64(2), Float64(1)))

\* the two stores after {"x":["a"]} and {"x":["b"]}: concatenated in one,
\* replaced in the other
DiffersOnArrays ==
    /\ Limit = 0
    /\ "foo" \in DOMAIN Data /\ "foo" \in DOMAIN Data_d
    /\ Data["foo"]   = GoMap("x" :> Slice(<<String("a"), String("b")>>))
    /\ Data_d["foo"] = GoMap("x" :> Slice(<<String("b")>>))

====
